---- MODULE Spec2Model ----
(***************************************************************************)
(* Block-world planner of shrdlite: the State / PlanGraph action model,    *)
(* the goal evaluator checkLit, the heuristic, the generic aStarSearch of  *)
(* Graph.ts with its Visited table and priority queue, and the driver      *)
(* Planner.plan that encodes the path found as a plan.                     *)
(*                                                                         *)
(* JavaScript null and undefined are the strings "null" and "undefined",   *)
(* which is also what State.toString prints for them.  Column indices and  *)
(* the arm are 0-based as in the source; TLA+ sequences are 1-based, so    *)
(* the column under the arm is stacks[arm + 1].                            *)
(***************************************************************************)
EXTENDS Integers, Sequences, FiniteSets, TLC

VARIABLES
    world,      \* the caller's WorldState: stacks, holding, arm
    node,       \* GraphSpec: the State the walk is in
    lastEdge,   \* GraphSpec: the edge the last step took, if it took one
    lit,        \* GraphSpec: the literal evaluated in node, if any
    litVal,     \* GraphSpec: the value checkLit returned for it
    arrays,     \* OwnSpec: the column arrays allocated so far, by address
    objs,       \* OwnSpec: the WorldState and the State objects made so
                \* far; the stacks of each are addresses of column arrays
    cmd,        \* InterpSpec: the parsed command given to interpretCommand
    answer,     \* InterpSpec: what interpretCommand returned or threw
    interps,    \* Planner.plan: the interpretations (DNF formulas) to plan
    idx,        \* Planner.plan: index of the interpretation being planned
    plans,      \* Planner.plan: the results collected so far, each the
                \* position of its interpretation and its plan
    errors,     \* Planner.plan: the errors collected so far
    hmode,      \* which heuristic aStarSearch is called with
    timeout,    \* aStarSearch: the timeout argument (seconds)
    pc,         \* position in Planner.plan / aStarSearch
    table,      \* Visited: key -> Wrapper (its domain is Visited.set)
    open,       \* the priority queue's heap array of nodes
    current,    \* aStarSearch: the node dequeued last
    edges,      \* aStarSearch: the edges of current still to be relaxed
    result,     \* aStarSearch: the SearchResult
    outcome,    \* how the last search ended
    hcalls,     \* how often heuristics() was called per key in this search
    expanded,   \* the nodes whose edges this search iterated over, each
                \* with its gRank at that time
    pops,       \* how many nodes this search has dequeued
    limit,      \* the deadline: the clock reaches endTime by that many pops
    calls       \* PairSpec: the two planInterpretation calls in progress,
                \* each with the locals of its aStarSearch

vars == <<world, node, lastEdge, lit, litVal, arrays, objs, cmd, answer,
          interps, idx, plans, errors,
          hmode, timeout, pc, table, open, current, edges, result, outcome,
          hcalls, expanded, pops, limit, calls>>

searchVars == <<interps, idx, plans, errors, hmode, timeout, pc, table, open,
                current, edges, result, outcome, hcalls, expanded, pops, limit,
                calls>>

ownVars == <<arrays, objs>>

cmdVars == <<cmd, answer>>

walkVars == <<node, lastEdge, lit, litVal, ownVars, cmdVars, calls>>

----------------------------------------------------------------------------
(* Bounds of the model *)

NumCols == 3

NumObjs == 3

\* Spec: the deadline elapses within that many loop iterations
MaxPops == 40

\* DeepSpec: the same for the long searches
DeepPops == 200

\* OwnSpec: at most that many objects (the WorldState and States) are made
MaxObjs == 9

\* TermSpec: the most objects in a world searched to the end, and a number
\* of dequeues no such search reaches
TermObjs == 3

TermPops == 3000

----------------------------------------------------------------------------
(* The object registry (WorldState.objects) *)

AllIds == <<"a", "b", "c", "d">>

ObjectDefs ==
    [a |-> [form |-> "brick", size |-> "large", color |-> "green"],
     b |-> [form |-> "box",   size |-> "small", color |-> "red"],
     c |-> [form |-> "ball",  size |-> "small", color |-> "white"],
     d |-> [form |-> "brick", size |-> "small", color |-> "blue"],
     e |-> [form |-> "box",     size |-> "large", color |-> "yellow"],
     f |-> [form |-> "ball",    size |-> "large", color |-> "black"],
     g |-> [form |-> "pyramid", size |-> "small", color |-> "red"],
     h |-> [form |-> "pyramid", size |-> "large", color |-> "green"],
     i |-> [form |-> "plank",   size |-> "small", color |-> "blue"],
     j |-> [form |-> "plank",   size |-> "large", color |-> "white"],
     k |-> [form |-> "table",   size |-> "small", color |-> "red"],
     l |-> [form |-> "table",   size |-> "large", color |-> "blue"],
     m |-> [form |-> "box",     size |-> "small", color |-> "blue"],
     n |-> [form |-> "box",     size |-> "large", color |-> "red"]]

Ids == {AllIds[i] : i \in 1..NumObjs}

Null == "null"

Undefined == "undefined"

\* JavaScript truthiness of a holding value
Truthy(h) == h \notin {Null, Undefined, ""}

Last(s) == s[Len(s)]

Front(s) == SubSeq(s, 1, Len(s) - 1)

Range(s) == {s[i] : i \in 1..Len(s)}

RECURSIVE Flatten(_)
Flatten(ss) == IF ss = <<>> THEN <<>> ELSE Head(ss) \o Flatten(Tail(ss))

----------------------------------------------------------------------------
(* State and PlanGraph *)

\* new State(st): copies the columns, the held object and the arm
State(st) == [stacks |-> st.stacks, holding |-> st.holding, arm |-> st.arm]

\* a filterDst without the rule that keeps balls in boxes or on the floor
filterDstNoBallRule(relation, src, dst) ==
    LET toSmall == src.size = "large" /\ dst.size = "small"
        boxCon == /\ dst.form = "box"
                  /\ src.form \in {"pyramid", "plank", "box"}
                  /\ src.size = dst.size
        ballCon == dst.form = "ball"
        brickPyrCon == /\ src.form = "box"
                       /\ dst.form \in {"brick", "pyramid"}
                       /\ dst.size = "small"
        largeBoxPyrCon == /\ src.form = "box" /\ src.size = "large"
                          /\ dst.form = "pyramid" /\ dst.size = "large"
    IN  \/ relation = "inside" /\ (boxCon \/ toSmall)
        \/ relation = "ontop" /\ (ballCon \/ toSmall \/ brickPyrCon
                                    \/ largeBoxPyrCon)
        \/ relation = "above" /\ (ballCon \/ toSmall \/ brickPyrCon
                                    \/ largeBoxPyrCon)

\* a filterDst without the size rule: a large object may go on a small one
filterDstAnySize(relation, src, dst) ==
    LET boxCon == /\ dst.form = "box"
                  /\ src.form \in {"pyramid", "plank", "box"}
                  /\ src.size = dst.size
        ballCon == dst.form = "ball"
        brickPyrCon == /\ src.form = "box"
                       /\ dst.form \in {"brick", "pyramid"}
                       /\ dst.size = "small"
        largeBoxPyrCon == /\ src.form = "box" /\ src.size = "large"
                          /\ dst.form = "pyramid" /\ dst.size = "large"
        ballBoxCon == src.form = "ball" /\ ~(dst.form \in {"box", "floor"})
    IN  \/ relation = "inside" /\ boxCon
        \/ relation = "ontop" /\ (ballCon \/ brickPyrCon
                                    \/ largeBoxPyrCon \/ ballBoxCon)
        \/ relation = "above" /\ (ballCon \/ brickPyrCon \/ largeBoxPyrCon)

\* Interpreter.filterDst: TRUE when the placement is NOT allowed
filterDst(relation, src, dst) ==
    LET toSmall == src.size = "large" /\ dst.size = "small"
        boxCon == /\ dst.form = "box"
                  /\ src.form \in {"pyramid", "plank", "box"}
                  /\ src.size = dst.size
        ballCon == dst.form = "ball"
        brickPyrCon == /\ src.form = "box"
                       /\ dst.form \in {"brick", "pyramid"}
                       /\ dst.size = "small"
        largeBoxPyrCon == /\ src.form = "box" /\ src.size = "large"
                          /\ dst.form = "pyramid" /\ dst.size = "large"
        ballBoxCon == src.form = "ball" /\ ~(dst.form \in {"box", "floor"})
    IN  \/ relation = "inside" /\ (boxCon \/ toSmall)
        \/ relation = "ontop" /\ (ballCon \/ toSmall \/ brickPyrCon
                                    \/ largeBoxPyrCon \/ ballBoxCon)
        \/ relation = "above" /\ (ballCon \/ toSmall \/ brickPyrCon
                                    \/ largeBoxPyrCon)

Edge(kind, from, to) == [kind |-> kind, from |-> from, to |-> to, cost |-> 1]

\* a move left that is offered in the leftmost column as well
LeftEdgesFromZero(state) ==
    IF state.arm >= 0
    THEN <<Edge("l", state, [State(state) EXCEPT !.arm = @ - 1])>>
    ELSE <<>>

\* outgoingEdges, first branch: move the arm left
LeftEdges(state) ==
    IF state.arm > 0
    THEN <<Edge("l", state, [State(state) EXCEPT !.arm = @ - 1])>>
    ELSE <<>>

\* a move right that is offered in the rightmost column as well
RightEdgesPastEnd(state) ==
    IF state.arm < Len(state.stacks)
    THEN <<Edge("r", state, [State(state) EXCEPT !.arm = @ + 1])>>
    ELSE <<>>

\* outgoingEdges, second branch: move the arm right
RightEdges(state) ==
    IF state.arm < Len(state.stacks) - 1
    THEN <<Edge("r", state, [State(state) EXCEPT !.arm = @ + 1])>>
    ELSE <<>>

\* Array.pop on the column under the arm: the popped value and what is left
PopTop(col) ==
    IF Len(col) = 0 THEN [val |-> Undefined, rest |-> col]
                    ELSE [val |-> Last(col), rest |-> Front(col)]

\* a pick up that reads the top of the column without removing it
PickEdgesKeepsTop(state) ==
    IF ~Truthy(state.holding) /\ state.arm + 1 \in 1..Len(state.stacks)
    THEN LET p == PopTop(state.stacks[state.arm + 1])
         IN  <<Edge("p", state, [State(state) EXCEPT !.holding = p.val])>>
    ELSE <<>>

\* outgoingEdges, third branch: pick up.  An empty column is an array, hence
\* != null, so the branch is taken and pop() yields undefined.
PickEdges(state) ==
    IF ~Truthy(state.holding) /\ state.arm + 1 \in 1..Len(state.stacks)
    THEN LET p == PopTop(state.stacks[state.arm + 1])
         IN  <<Edge("p", state,
                    [State(state) EXCEPT !.holding = p.val,
                                         !.stacks[state.arm + 1] = p.rest])>>
    ELSE <<>>

\* the successor of a put down: the held object on top of the column
PutTarget(state) ==
    [State(state) EXCEPT !.stacks[state.arm + 1] = Append(@, state.holding),
                         !.holding = Null]

\* outgoingEdges, fourth branch (else-if of the third): put down
PutEdges(state) ==
    IF (~Truthy(state.holding) /\ state.arm + 1 \in 1..Len(state.stacks))
       \/ ~Truthy(state.holding)
    THEN <<>>
    ELSE LET dstStack == state.stacks[state.arm + 1]
             top == IF Len(dstStack) = 0 THEN Undefined ELSE Last(dstStack)
         IN  IF /\ top # "floor"
                /\ top \in DOMAIN ObjectDefs
                /\ state.holding \in DOMAIN ObjectDefs
             THEN IF /\ ~filterDst("ontop", ObjectDefs[state.holding],
                                   ObjectDefs[top])
                     /\ ~filterDst("inside", ObjectDefs[state.holding],
                                   ObjectDefs[top])
                  THEN <<Edge("d", state, PutTarget(state))>>
                  ELSE <<>>
             ELSE <<Edge("d", state, PutTarget(state))>>

\* PlanGraph.outgoingEdges: the edges in the order the code pushes them
outgoingEdges(state) ==
    LeftEdges(state) \o RightEdges(state) \o PickEdges(state)
        \o PutEdges(state)

----------------------------------------------------------------------------
(* Initial worlds *)

\* the ways to cut a sequence into n consecutive columns
RECURSIVE Cuts(_, _)
Cuts(s, n) ==
    IF n = 1 THEN {<<s>>}
    ELSE UNION {{<<SubSeq(s, 1, k)>> \o rest :
                    rest \in Cuts(SubSeq(s, k + 1, Len(s)), n - 1)} :
                k \in 0..Len(s)}

\* a column obeys the physical laws when each object may rest on the one below
LegalColumn(col) ==
    \A i \in 2..Len(col) :
        /\ ~filterDst("ontop", ObjectDefs[col[i]], ObjectDefs[col[i - 1]])
        /\ ~filterDst("inside", ObjectDefs[col[i]], ObjectDefs[col[i - 1]])

LegalStacks(st) == \A i \in 1..Len(st) : LegalColumn(st[i])

\* the first k objects of the registry, in registry order
Prefix(k) == [i \in 1..k |-> AllIds[i]]

\* the worlds planning starts from: up to NumCols columns and the first
\* objects of the registry, in registry order from the left column to the
\* right and from the floor up, nothing held, the arm over column 0
InitWorlds ==
    UNION {{[stacks |-> st, holding |-> Null, arm |-> 0] :
                st \in {c \in Cuts(Prefix(k), n) : LegalStacks(c)}} :
           k \in 1..NumObjs, n \in 1..NumCols}

\* the worlds of the three-action scenario: an object alone in column 0,
\* another one that may carry it alone in column 1, and column 2 empty
ScenarioWorlds ==
    {[stacks |-> <<<<xy[1]>>, <<xy[2]>>, <<>>>>, holding |-> Null,
      arm |-> 0] :
        xy \in {p \in Ids \X Ids :
                    /\ p[1] # p[2]
                    /\ LegalColumn(<<p[2], p[1]>>)}}

\* the objects of a world
ObjectsOf(w) ==
    Range(Flatten(w.stacks)) \cup (IF Truthy(w.holding) THEN {w.holding} ELSE {})

\* the world the walk starts from: all objects dealt over all columns
WalkWorlds ==
    {[stacks |-> [c \in 1..NumCols |->
                    SelectSeq(Prefix(NumObjs),
                              LAMBDA x : \E i \in 1..NumObjs :
                                  /\ AllIds[i] = x
                                  /\ (i - 1) % NumCols = c - 1)],
      holding |-> Null, arm |-> 0]}

NoNode == [stacks |-> <<>>, holding |-> Null, arm |-> -1]

NoEdge == [kind |-> "none", from |-> NoNode, to |-> NoNode, cost |-> 0]

NoLit == [polarity |-> TRUE, relation |-> "none", args |-> <<>>]

----------------------------------------------------------------------------
(* Goal evaluation *)

Pos(x, y) == [x |-> x, y |-> y]

\* Interpreter.findPos: the first (column, row) holding obj, else (-100,-100)
findPos(obj, st) ==
    LET cells == UNION {{Pos(i - 1, j - 1) : j \in 1..Len(st[i])} :
                        i \in 1..Len(st)}
        hits == {p \in cells : st[p.x + 1][p.y + 1] = obj}
    IN  IF hits = {} THEN Pos(-100, -100)
        ELSE CHOOSE p \in hits :
                \A q \in hits : p.x < q.x \/ (p.x = q.x /\ p.y <= q.y)

\* lit.args[i] (0-based), undefined past the end
Arg(l, i) == IF i + 1 <= Len(l.args) THEN l.args[i + 1] ELSE Undefined

Abs(n) == IF n < 0 THEN -n ELSE n

\* the onFloor flag of checkLit: looks only at the column under the arm
onFloor(l, state) ==
    IF state.arm + 1 \in 1..Len(state.stacks)
    THEN /\ Arg(l, 1) = "floor"
         /\ Len(state.stacks[state.arm + 1]) > 0
         /\ state.stacks[state.arm + 1][1] = Arg(l, 0)
    ELSE FALSE

\* a checkLit that negates the value of a literal with polarity false
checkLitSigned(l, state) ==
    LET rel == l.relation
        src == findPos(Arg(l, 0), state.stacks)
        dst == findPos(Arg(l, 1), state.stacks)
        v == \/ onFloor(l, state)
             \/ (rel = "holding" /\ state.holding = Arg(l, 0))
             \/ /\ ~Truthy(state.holding)
                /\ \/ (rel \in {"inside", "ontop"} /\ src.x = dst.x
                        /\ src.y - 1 = dst.y)
                   \/ (rel = "above" /\ src.x = dst.x /\ src.y > dst.y)
                   \/ (rel = "under" /\ src.x = dst.x /\ src.y < dst.y)
                   \/ (rel = "leftof" /\ src.x < dst.x /\ src.x > -1)
                   \/ (rel = "rightof" /\ src.x > dst.x /\ dst.x > -1
                        /\ src.x < Len(state.stacks))
                   \/ (rel = "beside" /\ Abs(src.x - dst.x) = 1)
    IN  IF l.polarity THEN v ELSE ~v

\* Planner.checkLit
checkLit(l, state) ==
    LET rel == l.relation
        src == findPos(Arg(l, 0), state.stacks)
        dst == findPos(Arg(l, 1), state.stacks)
    IN  \/ onFloor(l, state)
        \/ (rel = "holding" /\ state.holding = Arg(l, 0))
        \/ /\ ~Truthy(state.holding)
           /\ \/ (rel = "inside" /\ src.x = dst.x /\ src.y - 1 = dst.y)
              \/ (rel = "ontop" /\ src.x = dst.x /\ src.y - 1 = dst.y)
              \/ (rel = "above" /\ src.x = dst.x /\ src.y > dst.y)
              \/ (rel = "under" /\ src.x = dst.x /\ src.y < dst.y)
              \/ (rel = "leftof" /\ src.x < dst.x /\ src.x > -1)
              \/ (rel = "rightof" /\ src.x > dst.x /\ dst.x > -1
                    /\ src.x < Len(state.stacks))
              \/ (rel = "beside" /\ Abs(src.x - dst.x) = 1)

\* the goal function planInterpretation hands to aStarSearch:
\* interpretation[0].every(lit => checkLit(lit, st))
goal(interpretation, st) ==
    \A i \in 1..Len(interpretation[1]) : checkLit(interpretation[1][i], st)

----------------------------------------------------------------------------
(* Heuristic *)

penalty == 5

\* Planner.calculateH
calculateH(objPos, state) ==
    LET diff == IF objPos.x + 1 \in 1..Len(state.stacks)
                THEN (Len(state.stacks[objPos.x + 1]) - 1) - objPos.y
                ELSE 0
    IN  IF diff > 0 THEN diff * penalty ELSE 0

\* Planner.heuristic(lits)(n): only lits[0] is looked at, and dObj is the
\* position of args[0] as well
heuristic(lits, n) ==
    LET l == lits[1]
        sObj == findPos(Arg(l, 0), n.stacks)
        dObj == findPos(Arg(l, 0), n.stacks)
        hs == IF n.holding # Arg(l, 0) THEN calculateH(sObj, n) ELSE 0
    IN  IF l.relation \in {"holding", "above", "rightof", "leftof", "beside"}
        THEN hs
        ELSE IF l.relation \in {"inside", "ontop", "under"}
        THEN hs + calculateH(dObj, n)
        ELSE 0

\* the heuristic function aStarSearch is called with
heuristics(mode, interpretation, n) ==
    IF mode = "zero" THEN 0 ELSE heuristic(interpretation[1], n)

----------------------------------------------------------------------------
(* Node identity: State.toString = collections.makeString(this) *)

\* Array.prototype.toString of the columns: the comma-separated tokens of
\* "" + stacks; an empty column prints as the empty token
RECURSIVE Tokens(_)
Tokens(ss) ==
    IF ss = <<>> THEN <<>>
    ELSE (IF Head(ss) = <<>> THEN <<"">> ELSE Head(ss)) \o Tokens(Tail(ss))

\* "{stacks:" + stacks + ",holding:" + holding + ",arm:" + arm + "}"
toString(n) ==
    [stacks |-> Tokens(n.stacks), holding |-> n.holding, arm |-> n.arm]

----------------------------------------------------------------------------
(* Plan encoding *)

\* an encoding that takes a put down for a pick up and the reverse
StepTokenSwapped(cs, ns) ==
    IF ns.arm < cs.arm THEN <<"l">>
    ELSE IF ns.arm > cs.arm THEN <<"r">>
    ELSE IF Truthy(ns.holding) /\ ~Truthy(cs.holding) THEN <<"d">>
    ELSE IF ~Truthy(ns.holding) /\ Truthy(cs.holding) THEN <<"p">>
    ELSE <<>>

\* the token Planner.interpret pushes for one consecutive pair of the path
StepToken(cs, ns) ==
    IF ns.arm < cs.arm THEN <<"l">>
    ELSE IF ns.arm > cs.arm THEN <<"r">>
    ELSE IF Truthy(ns.holding) /\ ~Truthy(cs.holding) THEN <<"p">>
    ELSE IF ~Truthy(ns.holding) /\ Truthy(cs.holding) THEN <<"d">>
    ELSE <<>>

RECURSIVE interpretFrom(_, _)
interpretFrom(path, i) ==
    IF i >= Len(path) THEN <<>>
    ELSE StepToken(path[i], path[i + 1]) \o interpretFrom(path, i + 1)

\* Planner.interpret(result)
interpret(res) == interpretFrom(res.path, 1)

----------------------------------------------------------------------------
(* Visited *)

Wrapper(parent, value, g, h) ==
    [parent |-> parent, value |-> value, gRank |-> g, hRank |-> h,
     fRank |-> g + h]

\* Visited.setValue: table['$' + value.toString()] = wrapper; set.add(value)
setValue(t, w) ==
    [k \in DOMAIN t \cup {toString(w.value)} |->
        IF k = toString(w.value) THEN w ELSE t[k]]

\* an update that sets the parent and keeps the ranks
updateKeepsRanks(t, parent, value, gDiff) ==
    [t EXCEPT ![toString(value)] = [@ EXCEPT !.parent = parent]]

\* an update that lowers the ranks and keeps the parent
updateKeepsParent(t, parent, value, gDiff) ==
    [t EXCEPT ![toString(value)] =
        [@ EXCEPT !.gRank = @ - gDiff, !.fRank = @ - gDiff]]

\* an update that lowers gRank and leaves fRank as it was
updateKeepsFRank(t, parent, value, gDiff) ==
    [t EXCEPT ![toString(value)] =
        [@ EXCEPT !.gRank = @ - gDiff, !.parent = parent]]

\* Visited.update
update(t, parent, value, gDiff) ==
    [t EXCEPT ![toString(value)] =
        [@ EXCEPT !.gRank = @ - gDiff, !.parent = parent,
                  !.fRank = @ - gDiff]]

\* Visited.contains: collections.Set keys its elements by toString
contains(t, n) == toString(n) \in DOMAIN t

getFRank(t, n) == t[toString(n)].fRank

getGRank(t, n) == t[toString(n)].gRank

getHRank(t, n) == t[toString(n)].hRank

getParent(t, n) == t[toString(n)].parent

----------------------------------------------------------------------------
(* The open queue: collections.PriorityQueue over collections.Heap *)

\* the compare function aStarSearch gives the queue
compareF(t, a, b) ==
    IF getFRank(t, a) < getFRank(t, b) THEN 1
    ELSE IF getFRank(t, a) = getFRank(t, b) THEN 0 ELSE -1

\* PriorityQueue builds its heap on the reversed compare function
heapCompare(t, a, b) == -compareF(t, a, b)

swap(data, i, j) == [data EXCEPT ![i + 1] = data[j + 1], ![j + 1] = data[i + 1]]

RECURSIVE siftUp(_, _, _)
siftUp(t, data, index) ==
    LET parent == (index - 1) \div 2
    IN  IF index > 0 /\ heapCompare(t, data[parent + 1], data[index + 1]) > 0
        THEN siftUp(t, swap(data, parent, index), parent)
        ELSE data

minIndex(t, data, leftChild, rightChild) ==
    IF rightChild >= Len(data)
    THEN IF leftChild >= Len(data) THEN -1 ELSE leftChild
    ELSE IF heapCompare(t, data[leftChild + 1], data[rightChild + 1]) <= 0
         THEN leftChild ELSE rightChild

RECURSIVE siftDown(_, _, _)
siftDown(t, data, nodeIndex) ==
    LET min == minIndex(t, data, 2 * nodeIndex + 1, 2 * nodeIndex + 2)
    IN  IF min >= 0 /\ heapCompare(t, data[nodeIndex + 1], data[min + 1]) > 0
        THEN siftDown(t, swap(data, min, nodeIndex), min)
        ELSE data

\* PriorityQueue.enqueue = Heap.add
enqueue(t, data, n) == siftUp(t, Append(data, n), Len(data))

\* PriorityQueue.dequeue = Heap.removeRoot: what is left of the heap
removeRoot(t, data) ==
    IF Len(data) <= 1 THEN <<>>
    ELSE siftDown(t, <<Last(data)>> \o SubSeq(data, 2, Len(data) - 1), 0)

----------------------------------------------------------------------------
(* Inputs *)

Lit(rel, args) == [polarity |-> TRUE, relation |-> rel, args |-> args]

Relations ==
    {"ontop", "inside", "above", "under", "leftof", "rightof", "beside"}

\* the literals the goal evaluator is applied to
Literals ==
    {[polarity |-> p, relation |-> "holding", args |-> <<x>>] :
        p \in BOOLEAN, x \in Ids}
    \cup {[polarity |-> p, relation |-> r, args |-> <<x, y>>] :
            p \in BOOLEAN, r \in Relations, x \in Ids,
            y \in Ids \cup {"floor"}}

\* the relations of the goals that are planned
GoalRelations == {"ontop", "leftof"}

\* the interpretations that are planned in a world with the objects S: goals
\* of one literal, goals of two alternatives, and the empty formula
Formulas(S) ==
    {<<<<Lit("holding", <<x>>)>>>> : x \in S}
    \cup {<<<<Lit(r, <<xy[1], xy[2]>>)>>>> :
            r \in GoalRelations,
            xy \in {p \in S \X (S \cup {"floor"}) : p[1] # p[2]}}
    \cup {<<<<Lit("holding", <<xy[1]>>)>>, <<Lit("holding", <<xy[2]>>)>>>> :
            xy \in {p \in S \X S : p[1] # p[2]}}
    \cup {<<>>}

\* goals of two literals: three objects in a row, y left of x left of z
RowFormulas(S) ==
    {<<<<Lit("leftof", <<t[1], t[3]>>), Lit("leftof", <<t[2], t[1]>>)>>>> :
        t \in {q \in S \X S \X S : Cardinality({q[1], q[2], q[3]}) = 3}}

\* the second interpretations of the lists of two
SecondFormulas == {<<>>, <<<<Lit("holding", <<AllIds[1]>>)>>>>}

\* the lists of interpretations Planner.plan is called with
InterpLists(S, deep) ==
    {<<f>> : f \in Formulas(S) \cup (IF deep THEN RowFormulas(S) ELSE {})}
    \cup {<<f, g>> : f \in SecondFormulas, g \in SecondFormulas}

\* a result initialised with cost 0 instead of -1
NotFoundCostZero == [path |-> <<>>, cost |-> 0]

NotFound == [path |-> <<>>, cost |-> -1]

----------------------------------------------------------------------------
(* The walk over PlanGraph: one action per branch of outgoingEdges *)

\* no object is tracked by address
NoObjects == arrays = <<>> /\ objs = <<>>

\* a description without the parts a command may leave out
NoDesc ==
    [form |-> Null, size |-> Null, color |-> Null, locRel |-> Null,
     locQuant |-> Null, locForm |-> Null, locSize |-> Null]

NoCmd == [command |-> "none", entity |-> NoDesc, relation |-> Null,
          location |-> NoDesc]

NoAnswer == [done |-> FALSE, thrown |-> FALSE, formula |-> <<>>]

\* interpretCommand is not called
NoCommand == cmd = NoCmd /\ answer = NoAnswer

IdleSearch ==
    /\ interps = <<>> /\ idx = 0 /\ plans = <<>> /\ errors = <<>>
    /\ hmode = "zero" /\ timeout = 0 /\ pc = "idle" /\ table = <<>>
    /\ open = <<>> /\ current = NoNode /\ edges = <<>>
    /\ result = NotFound /\ outcome = "none" /\ hcalls = <<>>
    /\ expanded = {}
    /\ pops = 0 /\ limit = 0
    /\ calls = <<>>

InitGraph ==
    /\ world \in WalkWorlds
    /\ node = State(world)
    /\ lastEdge = NoEdge
    /\ lit = NoLit
    /\ litVal = FALSE
    /\ NoObjects
    /\ NoCommand
    /\ IdleSearch

Take(es) ==
    /\ pc = "idle"
    /\ es # <<>>
    /\ node' = es[1].to
    /\ lastEdge' = es[1]
    /\ lit' = NoLit
    /\ litVal' = FALSE
    /\ UNCHANGED <<world, ownVars, cmdVars, searchVars>>

MoveLeft == Take(LeftEdges(node))

MoveRight == Take(RightEdges(node))

PickUp == Take(PickEdges(node))

PutDown == Take(PutEdges(node))

\* the goal evaluator applied to the state the walk is in
EvalLit ==
    /\ pc = "idle"
    /\ lit = NoLit
    /\ \E l \in Literals :
        /\ lit' = l
        /\ litVal' = checkLit(l, node)
    /\ lastEdge' = NoEdge
    /\ UNCHANGED <<world, node, ownVars, cmdVars, searchVars>>

NextGraph == MoveLeft \/ MoveRight \/ PickUp \/ PutDown \/ EvalLit

GraphSpec == InitGraph /\ [][NextGraph]_vars

\* the worlds the placement rules are walked in: any object of the registry
\* in the arm, any other one on the floor under it, and a free column
PlaceWorlds ==
    {[stacks |-> <<<<xy[1]>>, <<>>>>, holding |-> xy[2], arm |-> 0] :
        xy \in {p \in (DOMAIN ObjectDefs) \X (DOMAIN ObjectDefs) :
                    p[1] # p[2]}}

InitPlace ==
    /\ world \in PlaceWorlds
    /\ node = State(world)
    /\ lastEdge = NoEdge
    /\ lit = NoLit
    /\ litVal = FALSE
    /\ NoObjects
    /\ NoCommand
    /\ IdleSearch

NextPlace == MoveLeft \/ MoveRight \/ PickUp \/ PutDown

PlaceSpec == InitPlace /\ [][NextPlace]_vars

----------------------------------------------------------------------------
(* The same State and outgoingEdges with the column arrays as objects:     *)
(* arrays[a] is the array at address a, and the stacks of an object are    *)
(* the addresses of its column arrays                                      *)

\* the value of an object: its columns read through their addresses
Deref(h, o) ==
    [stacks |-> [c \in 1..Len(o.stacks) |-> h[o.stacks[c]]],
     holding |-> o.holding, arm |-> o.arm]

\* st.stacks.slice(): a new outer array that holds the same column arrays
CopyStacksShallow(h, addrs) == [arrays |-> h, stacks |-> addrs]

\* st.stacks.map(x => x.slice()): a new array for every column
CopyStacks(h, addrs) ==
    [arrays |-> h \o [k \in 1..Len(addrs) |-> h[addrs[k]]],
     stacks |-> [k \in 1..Len(addrs) |-> Len(h) + k]]

\* new State(st)
NewState(h, st) ==
    LET c == CopyStacks(h, st.stacks)
    IN  [arrays |-> c.arrays,
         obj |-> [stacks |-> c.stacks, holding |-> st.holding,
                  arm |-> st.arm]]

\* outgoingEdges, first branch
OwnLeft(h, s) ==
    IF s.arm > 0
    THEN LET n == NewState(h, s)
         IN  [arrays |-> n.arrays, tos |-> <<[n.obj EXCEPT !.arm = @ - 1]>>]
    ELSE [arrays |-> h, tos |-> <<>>]

\* outgoingEdges, second branch
OwnRight(h, s) ==
    IF s.arm < Len(s.stacks) - 1
    THEN LET n == NewState(h, s)
         IN  [arrays |-> n.arrays, tos |-> <<[n.obj EXCEPT !.arm = @ + 1]>>]
    ELSE [arrays |-> h, tos |-> <<>>]

\* outgoingEdges, third and fourth branch: pop from, push onto the column
\* array of the copy
OwnPickPut(h, s) ==
    IF ~Truthy(s.holding) /\ s.arm + 1 \in 1..Len(s.stacks)
    THEN LET n == NewState(h, s)
             a == n.obj.stacks[s.arm + 1]
             p == PopTop(n.arrays[a])
         IN  [arrays |-> [n.arrays EXCEPT ![a] = p.rest],
              tos |-> <<[n.obj EXCEPT !.holding = p.val]>>]
    ELSE IF Truthy(s.holding)
    THEN LET n == NewState(h, s)
             a == n.obj.stacks[s.arm + 1]
             dstStack == n.arrays[a]
             top == IF Len(dstStack) = 0 THEN Undefined ELSE Last(dstStack)
             legal == IF /\ top # "floor"
                         /\ top \in DOMAIN ObjectDefs
                         /\ s.holding \in DOMAIN ObjectDefs
                      THEN /\ ~filterDst("ontop", ObjectDefs[s.holding],
                                         ObjectDefs[top])
                           /\ ~filterDst("inside", ObjectDefs[s.holding],
                                         ObjectDefs[top])
                      ELSE TRUE
         IN  IF legal
             THEN [arrays |-> [n.arrays EXCEPT ![a] = Append(@, s.holding)],
                   tos |-> <<[n.obj EXCEPT !.holding = Null]>>]
             ELSE [arrays |-> n.arrays, tos |-> <<>>]
    ELSE [arrays |-> h, tos |-> <<>>]

\* outgoingEdges(s): the arrays afterwards and the successors it returns
OwnEdges(h, s) ==
    LET l == OwnLeft(h, s)
        r == OwnRight(l.arrays, s)
        p == OwnPickPut(r.arrays, s)
    IN  [arrays |-> p.arrays, tos |-> l.tos \o r.tos \o p.tos]

\* the caller's WorldState is the first object
InitOwn ==
    /\ world \in InitWorlds \cup WalkWorlds
    /\ arrays = world.stacks
    /\ objs = <<[stacks |-> [c \in 1..Len(world.stacks) |-> c],
                 holding |-> world.holding, arm |-> world.arm]>>
    /\ node = NoNode /\ lastEdge = NoEdge /\ lit = NoLit /\ litVal = FALSE
    /\ NoCommand
    /\ IdleSearch

\* planInterpretation: new State(state), the start node
MakeStart ==
    /\ Len(objs) = 1
    /\ LET n == NewState(arrays, objs[1])
       IN  arrays' = n.arrays /\ objs' = Append(objs, n.obj)
    /\ UNCHANGED <<world, node, lastEdge, lit, litVal, cmdVars, searchVars>>

\* aStarSearch: graph.outgoingEdges(current) for a State made so far
Expand ==
    /\ Len(objs) + 3 <= MaxObjs
    /\ \E i \in 2..Len(objs) :
        LET e == OwnEdges(arrays, objs[i])
        IN  arrays' = e.arrays /\ objs' = objs \o e.tos
    /\ UNCHANGED <<world, node, lastEdge, lit, litVal, cmdVars, searchVars>>

NextOwn == MakeStart \/ Expand

OwnSpec == InitOwn /\ [][NextOwn]_vars

----------------------------------------------------------------------------
(* Interpreter.interpretCommand for the commands take and move.  A         *)
(* description is the object of an entity: form, size, color, and for a    *)
(* complex one (obj.location != null) the relation, quantifier and simple  *)
(* object of its location                                                  *)

Thrown(msg) == [thrown |-> TRUE, msg |-> msg, objs |-> <<>>]

Returns(objects) == [thrown |-> FALSE, msg |-> "", objs |-> objects]

\* Interpreter.filterFun
filterFun(relation, src, dst, floor) ==
    \/ relation = "inside"
            /\ ((src.x = dst.x /\ src.y - 1 = dst.y) \/ (floor /\ src.y = 0))
    \/ relation = "ontop"
            /\ ((src.x = dst.x /\ src.y - 1 = dst.y) \/ (floor /\ src.y = 0))
    \/ relation = "above" /\ src.x = dst.x /\ src.y > dst.y
    \/ relation = "under" /\ src.x = dst.x /\ src.y < dst.y
    \/ relation = "beside" /\ Abs(src.x - dst.x) = 1

AllObjectsInColumns(st) == Flatten(st.stacks)

\* findObjects: the objects of the world, the held one last
AllObjects(st) ==
    Flatten(st.stacks)
        \o (IF Truthy(st.holding) THEN <<st.holding>> ELSE <<>>)

\* findObjects: the objects that match form, color and size
Matching(form, color, size, st) ==
    SelectSeq(AllObjects(st),
              LAMBDA y : /\ form = ObjectDefs[y].form \/ form = "anyform"
                         /\ color = ObjectDefs[y].color \/ color = Null
                         /\ size = ObjectDefs[y].size \/ size = Null)

\* findObjects on a simple description
findSimple(form, color, size, st, isSrc) ==
    LET objects == Matching(form, color, size, st)
                    \o (IF form = "floor" /\ ~isSrc THEN <<"floor">>
                        ELSE <<>>)
    IN  IF objects = <<>> THEN Thrown("Objects empty") ELSE Returns(objects)

\* Interpreter.findObjects
findObjects(d, st, isSrc) ==
    IF d.locRel = Null
    THEN findSimple(d.form, d.color, d.size, st, isSrc)
    ELSE LET objects == Matching(d.form, d.color, d.size, st)
             loc == findSimple(d.locForm, Null, d.locSize, st, FALSE)
             kept == SelectSeq(objects, LAMBDA src :
                        \E i \in 1..Len(loc.objs) :
                            filterFun(d.locRel, findPos(src, st.stacks),
                                      findPos(loc.objs[i], st.stacks),
                                      loc.objs[i] = "floor"))
         IN  IF loc.thrown THEN loc
             ELSE IF d.locQuant = "the" /\ Len(loc.objs) # 1
             THEN Thrown("The Quantifier the")
             ELSE IF kept = <<>> THEN Thrown("Objects do not exist")
             ELSE Returns(kept)

\* interpretCommand, move, both descriptions simple: the destinations one
\* source keeps (not itself, not forbidden by filterDst)
keptDsts(rel, src, dstObjs) ==
    SelectSeq(dstObjs, LAMBDA dst :
        /\ dst # src
        /\ ~(dst # "floor" /\ filterDst(rel, ObjectDefs[src], ObjectDefs[dst])))

\* the same: the source is removed when it already stands in the relation
\* to every destination, or keeps no destination
removedSrc(rel, src, dstObjs, st) ==
    \/ \A i \in 1..Len(dstObjs) :
            dstObjs[i] # src =>
                filterFun(rel, findPos(src, st.stacks),
                          findPos(dstObjs[i], st.stacks), dstObjs[i] = "floor")
    \/ keptDsts(rel, src, dstObjs) = <<>>

\* one conjunction of one literal for every destination of a source
RECURSIVE pairLits(_, _, _)
pairLits(rel, src, dsts) ==
    IF dsts = <<>> THEN <<>>
    ELSE <<<<Lit(rel, <<src, Head(dsts)>>)>>>> \o pairLits(rel, src, Tail(dsts))

\* hash.forEach: the literals of the sources in the table, in its order
RECURSIVE emit(_, _, _, _, _)
emit(rel, srcs, dstObjs, st, filtered) ==
    IF srcs = <<>> THEN <<>>
    ELSE pairLits(rel, Head(srcs),
                  IF filtered THEN keptDsts(rel, Head(srcs), dstObjs)
                  ELSE dstObjs)
            \o emit(rel, Tail(srcs), dstObjs, st, filtered)

Answer(thrown, formula) ==
    [done |-> TRUE, thrown |-> thrown, formula |-> formula]

\* interpretCommand, command take
interpretTake(c, st) ==
    LET srcObjs == findObjects(c.entity, st, TRUE)
    IN  IF srcObjs.thrown THEN Answer(TRUE, <<>>)
        ELSE Answer(FALSE, [i \in 1..Len(srcObjs.objs) |->
                                <<Lit("holding", <<srcObjs.objs[i]>>)>>])

\* interpretCommand, command move
interpretMove(c, st) ==
    LET srcObjs == findObjects(c.entity, st, TRUE)
        dstObjs == findObjects(c.location, st, FALSE)
        filtered == c.entity.locRel = Null /\ c.location.locRel = Null
        hash == IF filtered
                THEN SelectSeq(srcObjs.objs, LAMBDA src :
                        ~removedSrc(c.relation, src, dstObjs.objs, st))
                ELSE srcObjs.objs
    IN  IF srcObjs.thrown \/ dstObjs.thrown THEN Answer(TRUE, <<>>)
        ELSE IF hash = <<>> THEN Answer(TRUE, <<>>)
        ELSE Answer(FALSE, emit(c.relation, hash, dstObjs.objs, st, filtered))

\* the descriptions of the commands: a form with or without a size, alone
\* or with a location made of a relation, a quantifier and a form
DescForms == {"brick", "box", "ball", "anyform"}

SimpleDescs ==
    {[NoDesc EXCEPT !.form = f, !.size = z] :
        f \in DescForms, z \in {Null, "small"}}

ComplexDescs ==
    {[d EXCEPT !.locRel = r, !.locQuant = q, !.locForm = f] :
        d \in SimpleDescs, r \in {"ontop", "inside"}, q \in {"any", "the"},
        f \in {"floor", "box"}}

DstDescs == SimpleDescs \cup ComplexDescs \cup {[NoDesc EXCEPT !.form = "floor"]}

\* what a take command describes: also a colour, and the floor
TakeDescs ==
    SimpleDescs \cup ComplexDescs
        \cup {[d EXCEPT !.color = c] : d \in SimpleDescs, c \in {"red", "white"}}
        \cup {[NoDesc EXCEPT !.form = "floor"]}

Commands ==
    {[NoCmd EXCEPT !.command = "take", !.entity = e] : e \in TakeDescs}
    \cup {[command |-> "move", entity |-> e, relation |-> r,
            location |-> l] :
            e \in SimpleDescs \cup ComplexDescs,
            r \in {"inside", "ontop"}, l \in DstDescs}

\* the worlds commands are interpreted in: all objects in the columns, or
\* the top of column 0 in the arm
InterpWorlds ==
    LET full == {w \in InitWorlds :
                    /\ Len(w.stacks) = NumCols
                    /\ Len(Flatten(w.stacks)) = NumObjs}
    IN  full \cup {PickEdges(w)[1].to : w \in {v \in full : Len(v.stacks[1]) > 0}}

InitInterp ==
    /\ world \in InterpWorlds
    /\ cmd \in Commands
    /\ answer = NoAnswer
    /\ node = NoNode /\ lastEdge = NoEdge /\ lit = NoLit /\ litVal = FALSE
    /\ NoObjects
    /\ IdleSearch

InterpretTake ==
    /\ ~answer.done /\ cmd.command = "take"
    /\ answer' = interpretTake(cmd, world)
    /\ UNCHANGED <<world, cmd, node, lastEdge, lit, litVal, ownVars,
                   searchVars>>

InterpretMove ==
    /\ ~answer.done /\ cmd.command = "move"
    /\ answer' = interpretMove(cmd, world)
    /\ UNCHANGED <<world, cmd, node, lastEdge, lit, litVal, ownVars,
                   searchVars>>

NextInterp == InterpretTake \/ InterpretMove

InterpSpec == InitInterp /\ [][NextInterp]_vars

----------------------------------------------------------------------------
(* Planner.plan, planInterpretation and aStarSearch *)

\* planInterpretation throws a TypeError when interpretation[0] or its first
\* literal is missing
Throws(mode, interpretation) ==
    IF Len(interpretation) = 0 THEN TRUE
    ELSE mode = "plan" /\ Len(interpretation[1]) = 0

\* the calls of aStarSearch: planInterpretation's own (its heuristic and a
\* timeout of 10 seconds), and calls with the zero heuristic, with the same
\* timeout and with a timeout of zero
Modes == {<<"plan", 10>>, <<"zero", 10>>, <<"zero", 0>>}

\* the worlds searched to the end: three columns, and three objects or more
TermWorlds ==
    {w \in InitWorlds :
        /\ Len(w.stacks) = 3
        /\ Len(Flatten(w.stacks)) \in 3..TermObjs}

\* the worlds with one more column, which is empty
WideWorlds ==
    {[w EXCEPT !.stacks = Append(w.stacks, <<>>)] :
        w \in {v \in InitWorlds : Len(v.stacks) = NumCols}}

InitFrom(worlds, deep, lim) ==
    /\ world \in worlds
    /\ node = NoNode /\ lastEdge = NoEdge /\ lit = NoLit /\ litVal = FALSE
    /\ NoObjects
    /\ NoCommand
    /\ \E m \in Modes : hmode = m[1] /\ timeout = m[2]
    /\ interps \in InterpLists(ObjectsOf(world), deep)
    /\ hmode = "zero" => \A i \in 1..Len(interps) : Len(interps[i]) > 0
    /\ idx = 1
    /\ plans = <<>> /\ errors = <<>>
    /\ pc = "plan"
    /\ table = <<>> /\ open = <<>> /\ current = NoNode /\ edges = <<>>
    /\ result = NotFound /\ outcome = "none" /\ hcalls = <<>>
    /\ expanded = {}
    /\ pops = 0
    /\ limit = lim
    /\ calls = <<>>

InitSearch(deep) ==
    InitFrom(InitWorlds \cup ScenarioWorlds, deep,
             IF deep THEN DeepPops ELSE MaxPops)

Init == InitSearch(FALSE)

InitDeep == InitSearch(TRUE)

InitWide == InitFrom(WideWorlds, TRUE, DeepPops)

\* the searches that run to their end: the deadline is never reached
InitTerm ==
    /\ InitFrom(TermWorlds, TRUE, TermPops)
    /\ timeout > 0

start == State(world)

\* a plan() whose catch gives up on the interpretations that follow
PlanThrowAborts ==
    /\ pc = "plan" /\ idx <= Len(interps)
    /\ Throws(hmode, interps[idx])
    /\ errors' = Append(errors, "TypeError")
    /\ idx' = Len(interps) + 1
    /\ UNCHANGED <<world, walkVars, interps, plans, hmode, timeout, pc, table,
                   open, current, edges, result, outcome, hcalls, expanded, pops,
                   limit>>

\* the try block of Planner.plan throws: the error is collected
PlanThrow ==
    /\ pc = "plan" /\ idx <= Len(interps)
    /\ Throws(hmode, interps[idx])
    /\ errors' = Append(errors, "TypeError")
    /\ idx' = idx + 1
    /\ UNCHANGED <<world, walkVars, interps, plans, hmode, timeout, pc, table,
                   open, current, edges, result, outcome, hcalls, expanded, pops,
                   limit>>

\* aStarSearch up to the loop: the start node is recorded and enqueued
SearchStart ==
    /\ pc = "plan" /\ idx <= Len(interps)
    /\ ~Throws(hmode, interps[idx])
    /\ LET w == Wrapper(NoNode, start, 0,
                        heuristics(hmode, interps[idx], start))
           t == setValue(<<>>, w)
       IN  /\ table' = t
           /\ open' = enqueue(t, <<>>, start)
    /\ hcalls' = [k \in {toString(start)} |-> 1]
    /\ expanded' = {}
    /\ result' = NotFound
    /\ outcome' = "none"
    /\ current' = NoNode
    /\ edges' = <<>>
    /\ pops' = 0
    /\ pc' = "loop"
    /\ UNCHANGED <<world, walkVars, interps, idx, plans, errors, hmode,
                   timeout, limit>>

\* the loop test fails because the queue is empty
Exhausted ==
    /\ pc = "loop" /\ open = <<>>
    /\ outcome' = "exhausted"
    /\ pc' = "return"
    /\ UNCHANGED <<world, walkVars, interps, idx, plans, errors, hmode,
                   timeout, table, open, current, edges, result, hcalls, expanded,
                   pops, limit>>

\* the loop test fails because Date.now() has reached endTime: always with
\* a timeout of 0, otherwise whenever the clock says so, and at the latest
\* after limit iterations
Expired ==
    /\ pc = "loop" /\ open # <<>>
    /\ outcome' = "expired"
    /\ pc' = "return"
    /\ UNCHANGED <<world, walkVars, interps, idx, plans, errors, hmode,
                   timeout, table, open, current, edges, result, hcalls, expanded,
                   pops, limit>>

\* a path that stops at the node without a parent and leaves it out
RECURSIVE PathToWithoutStart(_, _, _)
PathToWithoutStart(t, n, fuel) ==
    IF n = NoNode \/ fuel = 0 THEN <<>>
    ELSE IF getParent(t, n) = NoNode THEN <<>>
    ELSE Append(PathToWithoutStart(t, getParent(t, n), fuel - 1), n)

\* the path read off the parent links: while(current) { unshift; getParent }
RECURSIVE PathTo(_, _, _)
PathTo(t, n, fuel) ==
    IF n = NoNode \/ fuel = 0 THEN <<>>
    ELSE Append(PathTo(t, getParent(t, n), fuel - 1), n)

\* dequeue a goal node: fill in the result and return
DequeueGoal ==
    /\ pc = "loop" /\ open # <<>> /\ timeout > 0 /\ pops < limit
    /\ goal(interps[idx], open[1])
    /\ current' = open[1]
    /\ open' = removeRoot(table, open)
    /\ result' = [path |-> PathTo(table, open[1],
                                  Cardinality(DOMAIN table) + 1),
                  cost |-> getGRank(table, open[1])]
    /\ outcome' = "found"
    /\ pops' = pops + 1
    /\ pc' = "return"
    /\ UNCHANGED <<world, walkVars, interps, idx, plans, errors, hmode,
                   timeout, table, edges, hcalls, expanded, limit>>

\* dequeue a node that is not a goal: its edges are to be relaxed
DequeueExpand ==
    /\ pc = "loop" /\ open # <<>> /\ timeout > 0 /\ pops < limit
    /\ ~goal(interps[idx], open[1])
    /\ current' = open[1]
    /\ open' = removeRoot(table, open)
    /\ edges' = outgoingEdges(open[1])
    /\ expanded' = expanded \cup {<<open[1], getGRank(table, open[1])>>}
    /\ pops' = pops + 1
    /\ pc' = IF outgoingEdges(open[1]) = <<>> THEN "loop" ELSE "edges"
    /\ UNCHANGED <<world, walkVars, interps, idx, plans, errors, hmode,
                   timeout, table, result, outcome, hcalls, limit>>

\* a cost that leaves the cost of the edge out
newCostWithoutEdge == getGRank(table, current)

\* the cost of travelling the next edge
newCost == getGRank(table, current) + Head(edges).cost

NextEdge ==
    /\ edges' = Tail(edges)
    /\ pc' = IF Tail(edges) = <<>> THEN "loop" ELSE "edges"
    /\ UNCHANGED <<world, walkVars, interps, idx, plans, errors, hmode,
                   timeout, current, result, outcome, expanded, pops,
                   limit>>

\* the edge reaches a node that is not in visited
RelaxNew ==
    /\ pc = "edges" /\ edges # <<>>
    /\ ~contains(table, Head(edges).to)
    /\ LET to == Head(edges).to
           t == setValue(table, Wrapper(current, to, newCost,
                                        heuristics(hmode, interps[idx], to)))
       IN  /\ table' = t
           /\ open' = enqueue(t, open, to)
           /\ hcalls' = [k \in DOMAIN hcalls \cup {toString(to)} |->
                            IF k # toString(to) THEN hcalls[k]
                            ELSE IF k \in DOMAIN hcalls THEN hcalls[k] + 1
                            ELSE 1]
    /\ NextEdge

\* a cheaper path that estimates the node again
RelaxCheaperEstimates ==
    /\ pc = "edges" /\ edges # <<>>
    /\ contains(table, Head(edges).to)
    /\ newCost < getGRank(table, Head(edges).to)
    /\ LET to == Head(edges).to
           t == update(table, current, to, getGRank(table, to) - newCost)
       IN  /\ table' = t
           /\ open' = enqueue(t, open, to)
           /\ hcalls' = [hcalls EXCEPT ![toString(to)] = @ + 1]
    /\ NextEdge

\* the edge reaches a visited node on a cheaper path
RelaxCheaper ==
    /\ pc = "edges" /\ edges # <<>>
    /\ contains(table, Head(edges).to)
    /\ newCost < getGRank(table, Head(edges).to)
    /\ LET to == Head(edges).to
           t == update(table, current, to, getGRank(table, to) - newCost)
       IN  /\ table' = t
           /\ open' = enqueue(t, open, to)
    /\ UNCHANGED hcalls
    /\ NextEdge

\* a skip that enqueues the node all the same
RelaxSkipEnqueues ==
    /\ pc = "edges" /\ edges # <<>>
    /\ contains(table, Head(edges).to)
    /\ ~(newCost < getGRank(table, Head(edges).to))
    /\ open' = enqueue(table, open, Head(edges).to)
    /\ UNCHANGED <<table, hcalls>>
    /\ NextEdge

\* the edge reaches a visited node on a path that is not cheaper
RelaxSkip ==
    /\ pc = "edges" /\ edges # <<>>
    /\ contains(table, Head(edges).to)
    /\ ~(newCost < getGRank(table, Head(edges).to))
    /\ UNCHANGED <<table, open, hcalls>>
    /\ NextEdge

AlreadyTrue == "That is already true!"

\* planInterpretation returns interpret(result); Planner.plan pushes the
\* "already true" message into an empty plan and collects the plan
PlanCollect ==
    /\ pc = "return"
    /\ LET plan == interpret(result)
       IN  plans' = Append(plans,
                           [interp |-> idx,
                            plan |-> IF Len(plan) = 0 THEN <<AlreadyTrue>>
                                     ELSE plan])
    /\ idx' = idx + 1
    /\ pc' = "plan"
    /\ UNCHANGED <<world, walkVars, interps, errors, hmode, timeout, table,
                   open, current, edges, result, outcome, hcalls, expanded, pops,
                   limit>>

\* Planner.plan after the forEach: return the plans or throw errors[0]
PlanFinish ==
    /\ pc = "plan" /\ idx > Len(interps)
    /\ pc' = IF Len(plans) > 0 THEN "returned" ELSE "thrown"
    /\ UNCHANGED <<world, walkVars, interps, idx, plans, errors, hmode,
                   timeout, table, open, current, edges, result, outcome,
                   hcalls, expanded, pops, limit>>

Next ==
    \/ PlanThrow \/ SearchStart \/ Exhausted \/ Expired \/ DequeueGoal
    \/ DequeueExpand \/ RelaxNew \/ RelaxCheaper \/ RelaxSkip
    \/ PlanCollect \/ PlanFinish

Spec == Init /\ [][Next]_vars

\* the same program, on the long searches as well
DeepSpec == InitDeep /\ [][Next]_vars

\* aStarSearch without deadline expiry: Date.now() stays below endTime, and
\* the single thread of control runs the search on until it returns
NextTerm ==
    \/ PlanThrow \/ SearchStart \/ Exhausted \/ DequeueGoal
    \/ DequeueExpand \/ RelaxNew \/ RelaxCheaper \/ RelaxSkip
    \/ PlanCollect \/ PlanFinish

\* a step of NextTerm is possible
Running ==
    \/ pc \in {"plan", "return"}
    \/ pc = "loop" /\ (open = <<>> \/ (timeout > 0 /\ pops < limit))
    \/ pc = "edges" /\ edges # <<>>

\* weak fairness of NextTerm, with Running for ENABLED <<NextTerm>>_vars
TermSpec ==
    /\ InitTerm /\ [][NextTerm]_vars
    /\ ([]<>(~Running) \/ []<><<NextTerm>>_vars)

\* the long searches in the worlds with one more column
WideSpec == InitWide /\ [][Next]_vars

----------------------------------------------------------------------------
(* Two planning calls on one world *)

PairObjs == 2

\* the worlds the two calls plan in: two columns
PairWorlds ==
    {w \in InitWorlds :
        /\ Len(w.stacks) = 2
        /\ Len(Flatten(w.stacks)) = PairObjs}

\* the goals of the two calls: hold an object, or have one on another
PairFormulas(S) ==
    {<<<<Lit("holding", <<x>>)>>>> : x \in S}
    \cup {<<<<Lit("ontop", <<xy[1], xy[2]>>)>>>> :
            xy \in {p \in S \X S : p[1] # p[2]}}

\* a call of planInterpretation that has not begun
NoCall(interpretation) ==
    [interp |-> interpretation, pc |-> "idle", table |-> <<>>,
     open |-> <<>>, current |-> NoNode, edges |-> <<>>,
     result |-> NotFound, outcome |-> "none"]

\* aStarSearch up to the loop, on the locals of one call
searchStart(c, w, mode) ==
    LET s0 == State(w)
        t == setValue(<<>>, Wrapper(NoNode, s0, 0,
                                    heuristics(mode, c.interp, s0)))
    IN  [c EXCEPT !.table = t, !.open = enqueue(t, <<>>, s0),
                  !.pc = "loop"]

\* one edge of the for loop, on the locals of one call
relaxStep(c, mode) ==
    LET edge == Head(c.edges)
        cost == getGRank(c.table, c.current) + edge.cost
        t == IF ~contains(c.table, edge.to)
             THEN setValue(c.table,
                           Wrapper(c.current, edge.to, cost,
                                   heuristics(mode, c.interp, edge.to)))
             ELSE IF cost < getGRank(c.table, edge.to)
             THEN update(c.table, c.current, edge.to,
                         getGRank(c.table, edge.to) - cost)
             ELSE c.table
        q == IF ~contains(c.table, edge.to)
                \/ cost < getGRank(c.table, edge.to)
             THEN enqueue(t, c.open, edge.to)
             ELSE c.open
    IN  [c EXCEPT !.table = t, !.open = q, !.edges = Tail(c.edges),
                  !.pc = IF Tail(c.edges) = <<>> THEN "loop" ELSE "edges"]

\* the loop test and the dequeue, on the locals of one call; Date.now()
\* stays below endTime
dequeueStep(c) ==
    IF c.open = <<>>
    THEN [c EXCEPT !.outcome = "exhausted", !.pc = "return"]
    ELSE LET n == c.open[1]
             q == removeRoot(c.table, c.open)
         IN  IF goal(c.interp, n)
             THEN [c EXCEPT
                    !.current = n, !.open = q,
                    !.result = [path |-> PathTo(c.table, n,
                                            Cardinality(DOMAIN c.table) + 1),
                                cost |-> getGRank(c.table, n)],
                    !.outcome = "found", !.pc = "return"]
             ELSE [c EXCEPT
                    !.current = n, !.open = q,
                    !.edges = outgoingEdges(n),
                    !.pc = IF outgoingEdges(n) = <<>> THEN "loop"
                           ELSE "edges"]

\* the next step of one call
searchStep(c, w, mode) ==
    IF c.pc = "idle" THEN searchStart(c, w, mode)
    ELSE IF c.pc = "loop" THEN dequeueStep(c)
    ELSE IF c.pc = "edges" THEN relaxStep(c, mode)
    ELSE c

\* one call run from its beginning to its return with nothing in between
RECURSIVE searchAlone(_, _, _)
searchAlone(c, w, mode) ==
    IF c.pc = "return" THEN c ELSE searchAlone(searchStep(c, w, mode), w, mode)

InitPair ==
    /\ world \in PairWorlds
    /\ node = NoNode /\ lastEdge = NoEdge /\ lit = NoLit /\ litVal = FALSE
    /\ NoObjects
    /\ NoCommand
    /\ \E m \in {"plan", "zero"} : hmode = m
    /\ timeout = 10
    /\ interps \in {<<f, g>> : f \in PairFormulas(ObjectsOf(world)),
                                g \in PairFormulas(ObjectsOf(world))}
    /\ idx = 0 /\ plans = <<>> /\ errors = <<>>
    /\ pc = "pair"
    /\ table = <<>> /\ open = <<>> /\ current = NoNode /\ edges = <<>>
    /\ result = NotFound /\ outcome = "none" /\ hcalls = <<>>
    /\ expanded = {}
    /\ pops = 0 /\ limit = 0
    /\ calls = [i \in 1..2 |-> NoCall(interps[i])]

pairFrame ==
    UNCHANGED <<world, node, lastEdge, lit, litVal, ownVars, cmdVars,
                interps, idx, plans, errors, hmode, timeout, pc, table, open,
                current, edges, result, outcome, hcalls, expanded, pops,
                limit>>

\* a step that writes the result of the call into the other call as well
CallStepSharedResult(i) ==
    /\ pc = "pair"
    /\ calls[i].pc \in {"loop", "edges"}
    /\ LET c == searchStep(calls[i], world, hmode)
       IN  calls' = [j \in 1..2 |->
                        IF j = i THEN c
                        ELSE [calls[j] EXCEPT !.result = c.result]]
    /\ pairFrame

\* call i enters aStarSearch
CallStart(i) ==
    /\ pc = "pair"
    /\ calls[i].pc = "idle"
    /\ calls' = [calls EXCEPT ![i] = searchStep(calls[i], world, hmode)]
    /\ pairFrame

\* call i takes the next step of its loop; the other call stays as it is
CallStep(i) ==
    /\ pc = "pair"
    /\ calls[i].pc \in {"loop", "edges"}
    /\ calls' = [calls EXCEPT ![i] = searchStep(calls[i], world, hmode)]
    /\ pairFrame

NextPair == \E i \in 1..2 : CallStart(i) \/ CallStep(i)

\* two calls of planInterpretation on one world, their steps in any order
PairSpec == InitPair /\ [][NextPair]_vars

----------------------------------------------------------------------------
(* Reference notions the claims are stated with *)

Successors(s) == {outgoingEdges(s)[i].to : i \in 1..Len(outgoingEdges(s))}

\* breadth-first search over the states themselves: the length of a shortest
\* action sequence to a state with goal(f, _), or -1 when there is none
RECURSIVE BFS(_, _, _, _)
BFS(f, frontier, seen, d) ==
    IF \E s \in frontier : goal(f, s) THEN d
    ELSE LET next == UNION {Successors(s) : s \in frontier} \ seen
         IN  IF next = {} THEN -1 ELSE BFS(f, next, seen \cup next, d + 1)

Shortest(f, s) == BFS(f, {s}, {s}, 0)

Returned == pc = "return"

Found == pc = "return" /\ outcome = "found"

\* the formula is satisfied: some conjunction has all its literals true
DNFSat(f, st) ==
    \E c \in 1..Len(f) : \A i \in 1..Len(f[c]) : checkLit(f[c][i], st)

\* how often the object o occurs in the state: in the columns and in the arm
Occurrences(o, st) ==
    Cardinality({i \in 1..Len(Flatten(st.stacks)) : Flatten(st.stacks)[i] = o})
        + (IF st.holding = o THEN 1 ELSE 0)

\* some object rests directly on a ball, or a large one on a small one
BadPlacement(st) ==
    \E c \in 1..Len(st.stacks) : \E i \in 2..Len(st.stacks[c]) :
        LET upper == ObjectDefs[st.stacks[c][i]]
            lower == ObjectDefs[st.stacks[c][i - 1]]
        IN  lower.form = "ball" \/ (upper.size = "large" /\ lower.size = "small")

\* the column under the arm
ArmColumn(st) == st.stacks[st.arm + 1]

\* the object is in a column
Placed(x, st) == \E c \in 1..Len(st.stacks) : x \in Range(st.stacks[c])

\* column and row of a placed object, both counted from 0
ColumnOf(x, st) ==
    (CHOOSE c \in 1..Len(st.stacks) : x \in Range(st.stacks[c])) - 1

RowOf(x, st) ==
    LET col == st.stacks[ColumnOf(x, st) + 1]
    IN  (CHOOSE i \in 1..Len(col) : col[i] = x) - 1

\* a spatial relation between two placed objects, from their positions
Related(rel, x, y, st) ==
    LET cx == ColumnOf(x, st)  cy == ColumnOf(y, st)
        rx == RowOf(x, st)     ry == RowOf(y, st)
    IN  CASE rel \in {"ontop", "inside"} -> cx = cy /\ rx = ry + 1
          [] rel = "above" -> cx = cy /\ rx > ry
          [] rel = "under" -> cx = cy /\ rx < ry
          [] rel = "leftof" -> cx < cy
          [] rel = "rightof" -> cx > cy
          [] rel = "beside" -> Abs(cx - cy) = 1
          [] OTHER -> FALSE

\* the physical rules a placement of src directly on dst may violate
RuleViolated(src, dst) ==
    \/ src.size = "large" /\ dst.size = "small"
    \/ dst.form = "ball"
    \/ src.form = "ball" /\ dst.form # "box"
    \/ /\ src.form \in {"pyramid", "plank", "box"}
       /\ dst.form = "box" /\ src.size = dst.size
    \/ /\ src.form = "box"
       /\ dst.form \in {"brick", "pyramid"} /\ dst.size = "small"
    \/ /\ src.form = "box" /\ src.size = "large"
       /\ dst.form = "pyramid" /\ dst.size = "large"

\* no column array belongs to two objects or twice to one
Owned ==
    /\ \A i \in 1..Len(objs) :
            Cardinality(Range(objs[i].stacks)) = Len(objs[i].stacks)
    /\ \A i, j \in 1..Len(objs) :
            i # j => Range(objs[i].stacks) \cap Range(objs[j].stacks) = {}

\* the positions of the interpretations whose planning does not throw
RECURSIVE Planned(_)
Planned(n) ==
    IF n = 0 THEN <<>>
    ELSE IF Throws(hmode, interps[n]) THEN Planned(n - 1)
    ELSE Append(Planned(n - 1), n)

----------------------------------------------------------------------------
(* The claims *)

\* C1: a found path starts at the initial state, follows edges of
\* outgoingEdges from state to state, and ends in a state with the goal.
\* Stated as claimed; the code violates it (see C7).
C1_PathIsValidWalk ==
    Found =>
        /\ Len(result.path) > 0
        /\ result.path[1] = start
        /\ \A i \in 1..(Len(result.path) - 1) :
                result.path[i + 1] \in Successors(result.path[i])
        /\ goal(interps[idx], result.path[Len(result.path)])

\* C2: conservation.  In every state the walk reaches, every object of the
\* initial world occurs exactly once, in a column or in the arm, and nothing
\* else occurs.
C2_Conservation ==
    pc = "idle" =>
        /\ \A o \in ObjectsOf(world) : Occurrences(o, node) = 1
        /\ ObjectsOf(node) = ObjectsOf(world)

\* C2 witness: an object was picked up and put down in another column
C2_Witness ==
    /\ lastEdge.kind = "d"
    /\ node.stacks # world.stacks
    /\ ~Truthy(node.holding)

\* C3: a pick-up edge is offered if and only if nothing is held and the
\* column under the arm is not empty.  Stated as claimed; the code offers a
\* pick up over an empty column.
C3_PickUpIffNonEmpty ==
    pc = "idle" =>
        (PickEdges(node) # <<>>
            <=> (~Truthy(node.holding) /\ Len(ArmColumn(node)) > 0))

\* C4: put-down legality.  No state the walk reaches, and no successor that
\* outgoingEdges offers there, has an object resting on a ball or a large
\* object resting on a small one.
C4_PutDownLegality ==
    pc = "idle" =>
        /\ ~BadPlacement(node)
        /\ \A s \in Successors(node) : ~BadPlacement(s)

\* C4 witness: the arm holds an object over a column whose top cannot
\* support it (a ball, or a small object under a large one), and
\* outgoingEdges offers no put down
C4_Witness ==
    /\ pc = "idle"
    /\ Truthy(node.holding)
    /\ Len(ArmColumn(node)) > 0
    /\ LET top == ObjectDefs[Last(ArmColumn(node))]
       IN  top.form = "ball"
           \/ (ObjectDefs[node.holding].size = "large" /\ top.size = "small")
    /\ PutEdges(node) = <<>>

\* C5: a plan that only says the goal is already true is collected only for
\* an interpretation whose goal holds in the initial state; a search that
\* ends without a path yields no plan.  Stated as claimed; Planner.plan
\* collects the "already true" plan for every search that ends not-found.
C5_NotFoundIsFailure ==
    \A i \in 1..Len(plans) :
        plans[i].plan = <<AlreadyTrue>> =>
            goal(interps[plans[i].interp], start)

\* C6: with the zero heuristic and no deadline expiry the cost returned is
\* the length of a shortest action sequence to a goal state (-1: none).
\* Stated as claimed; the code violates it (see C7).
C6_ZeroHeuristicOptimal ==
    (Returned /\ hmode = "zero" /\ outcome # "expired") =>
        result.cost = Shortest(interps[idx], start)

\* C7: the search treats a state an edge leads to as an already visited
\* node if and only if a state with the same stacks, holding and arm was
\* visited.  Stated as claimed; State.toString prints the columns without
\* their boundaries, so states with different columns share an entry.
C7_SameNodeIffEqualState ==
    (pc = "edges" /\ edges # <<>>) =>
        (contains(table, Head(edges).to)
            <=> \E k \in DOMAIN table : table[k].value = Head(edges).to)

\* C8 as claimed: whenever the initial state satisfies the goal, the search
\* returns the initial state alone with cost 0 and the plan has no action.
C8_GoalAtStart ==
    (Returned /\ goal(interps[idx], start)) =>
        /\ result = [path |-> <<start>>, cost |-> 0]
        /\ interpret(result) = <<>>

\* C8 as amended: when the initial state satisfies the goal and the
\* deadline has not elapsed at the first test of the loop condition, the
\* search returns the initial state alone with cost 0 and the plan has no
\* action.
C8_GoalAtStartInTime ==
    (Returned /\ goal(interps[idx], start)
        /\ ~(outcome = "expired" /\ pops = 0)) =>
        /\ outcome = "found"
        /\ result = [path |-> <<start>>, cost |-> 0]
        /\ interpret(result) = <<>>

\* C8 witness: a search from a state with the goal has returned it
C8_Witness ==
    /\ Found
    /\ goal(interps[idx], start)
    /\ pops = 1
    /\ result.path = <<start>>

\* C9: for the node dequeued, the goal function used is true if and only if
\* some conjunction of the formula has all its literals true.  Stated as
\* claimed; the goal function looks at the first conjunction only.
C9_GoalIsDNF ==
    (pc \in {"edges", "loop", "return"} /\ current # NoNode) =>
        (goal(interps[idx], current) <=> DNFSat(interps[idx], current))

\* C10: ontop(x, floor) and inside(x, floor) are true if and only if x is at
\* the bottom of some column.  Stated as claimed; checkLit only looks at
\* the bottom of the column under the arm.
C10_OnFloorAnyColumn ==
    (pc = "idle" /\ lit.relation \in {"ontop", "inside"}
        /\ Arg(lit, 1) = "floor") =>
        (litVal <=> \E c \in 1..Len(node.stacks) :
                        /\ Len(node.stacks[c]) > 0
                        /\ node.stacks[c][1] = Arg(lit, 0))

\* C11: for two objects that are both in columns, checkLit gives a spatial
\* relation the value their columns and rows give it, whatever the arm
\* holds.  Stated as claimed; checkLit makes every spatial relation false
\* while anything is held.
C11_RelationsFromPositions ==
    (pc = "idle" /\ lit.relation \in Relations /\ lit.polarity
        /\ Placed(Arg(lit, 0), node) /\ Placed(Arg(lit, 1), node)) =>
        (litVal <=> Related(lit.relation, Arg(lit, 0), Arg(lit, 1), node))

\* C12: a search that ends on the deadline returns the empty path with
\* cost -1; with a timeout of zero no node is ever dequeued, and a search
\* whose initial state lacks the goal returns that not-found result.
C12_DeadlineNotFound ==
    /\ (Returned /\ outcome = "expired") =>
            (result.path = <<>> /\ result.cost = -1)
    /\ (timeout = 0 /\ pc \in {"loop", "edges", "return"}) =>
            (pops = 0 /\ current = NoNode /\ pc # "edges")
    /\ (Returned /\ timeout = 0 /\ ~goal(interps[idx], start)) =>
            (outcome = "expired" /\ result.path = <<>> /\ result.cost = -1)

\* C12 witness: a search with a timeout of zero from a state without the
\* goal has returned
C12_Witness ==
    /\ Returned
    /\ timeout = 0
    /\ ~goal(interps[idx], start)
    /\ outcome = "expired"

\* C13: when Planner.plan ends, the plans collected are those of exactly
\* the interpretations whose planning did not throw, in input order, one
\* error is collected for each of the others, and plan throws if and only
\* if no interpretation was planned.
C13_PlansIndependent ==
    pc \in {"returned", "thrown"} =>
        /\ [i \in 1..Len(plans) |-> plans[i].interp] = Planned(Len(interps))
        /\ Len(errors) + Len(plans) = Len(interps)
        /\ (pc = "thrown" <=> Planned(Len(interps)) = <<>>)

\* C13 witness: plan returned a plan for an interpretation that follows
\* one whose planning threw
C13_Witness ==
    /\ pc = "returned"
    /\ Len(errors) > 0
    /\ Len(plans) > 0
    /\ plans[1].interp = 2

\* C14: a put-down edge is offered exactly when an object is held and the
\* column under the arm is empty or its top may carry the held object
\* under the physical rules; the edge leads to the state with the held
\* object on top of that column, nothing held and the arm where it was.
C14_PutDownExactlyWhenLegal ==
    pc = "idle" =>
        /\ PutEdges(node) # <<>>
            <=> /\ Truthy(node.holding)
                /\ \/ Len(ArmColumn(node)) = 0
                   \/ ~RuleViolated(ObjectDefs[node.holding],
                                    ObjectDefs[Last(ArmColumn(node))])
        /\ PutEdges(node) # <<>> =>
                /\ Len(PutEdges(node)) = 1
                /\ PutEdges(node)[1].to =
                        [stacks |-> [node.stacks EXCEPT ![node.arm + 1] =
                                        Append(@, node.holding)],
                         holding |-> Null,
                         arm |-> node.arm]

\* C14 witness: a held object was put down on top of another object
C14_Witness ==
    /\ pc = "idle"
    /\ lastEdge.kind = "d"
    /\ Len(ArmColumn(node)) >= 2
    /\ ~Truthy(node.holding)

\* C15: from a state that holds nothing over a column that is not empty,
\* the pick-up edge followed by the put-down edge in the same column, when
\* it is offered, leads to a state equal to the original and with the same
\* key in the search.  Stated as claimed; after a pick up over an empty
\* column (see C3) the original holds undefined and the round trip null.
C15_PickPutRoundTrip ==
    (pc = "idle" /\ ~Truthy(node.holding) /\ Len(ArmColumn(node)) > 0) =>
        /\ PickEdges(node) # <<>>
        /\ LET picked == PickEdges(node)[1].to
           IN  PutEdges(picked) # <<>> =>
                   /\ PutEdges(picked)[1].to = node
                   /\ toString(PutEdges(picked)[1].to) = toString(node)

\* C16: a move left is offered exactly when arm > 0 and a move right
\* exactly when arm < columns - 1; the successor's arm is one less, one
\* more, and its stacks and holding are those of the source state.
C16_MoveEdges ==
    pc = "idle" =>
        /\ LeftEdges(node) # <<>> <=> node.arm > 0
        /\ RightEdges(node) # <<>> <=> node.arm < Len(node.stacks) - 1
        /\ \A e \in Range(LeftEdges(node)) :
                /\ e.to.arm = node.arm - 1
                /\ e.to.stacks = node.stacks /\ e.to.holding = node.holding
        /\ \A e \in Range(RightEdges(node)) :
                /\ e.to.arm = node.arm + 1
                /\ e.to.stacks = node.stacks /\ e.to.holding = node.holding
        /\ Len(LeftEdges(node)) <= 1 /\ Len(RightEdges(node)) <= 1

\* C16 witness: the arm was moved right into the last column while holding
\* an object, and the only move offered there is the one to the left
C16_Witness ==
    /\ pc = "idle"
    /\ lastEdge.kind = "r"
    /\ node.arm = Len(node.stacks) - 1
    /\ Truthy(node.holding)
    /\ RightEdges(node) = <<>> /\ LeftEdges(node) # <<>>

\* C17: in every state of the walk the arm is over one of the columns, the
\* number of columns is that of the initial world, and at most one object
\* is out of the columns, the one the arm holds.
C17_ArmInRange ==
    pc = "idle" =>
        /\ node.arm \in 0..(Len(node.stacks) - 1)
        /\ Len(node.stacks) = Len(world.stacks)
        /\ node.holding \in ObjectsOf(world) \cup {Null, Undefined}
        /\ Len(Flatten(node.stacks)) >=
                Cardinality(ObjectsOf(world)) - 1
        /\ Len(Flatten(node.stacks)) = Cardinality(ObjectsOf(world))
                <=> ~Truthy(node.holding)

\* C17 witness: the arm has gone to the last column and back to the first
\* holding an object
C17_Witness ==
    /\ pc = "idle"
    /\ lastEdge.kind = "l"
    /\ node.arm = 0
    /\ Truthy(node.holding)
    /\ Len(node.stacks[Len(node.stacks)]) = 0

\* C19: in a world with one object alone in column 0, an object that may
\* carry it alone in column 1, column 2 empty, nothing held and the arm
\* over column 0, planning the goal ontop(first, second) within the
\* deadline returns cost 3 and the plan p, r, d.
C19_ThreeActionScenario ==
    (Returned /\ hmode = "plan" /\ outcome # "expired"
        /\ world \in ScenarioWorlds
        /\ interps[idx] = <<<<Lit("ontop", <<world.stacks[1][1],
                                             world.stacks[2][1]>>)>>>>) =>
        /\ outcome = "found"
        /\ result.cost = 3
        /\ interpret(result) = <<"p", "r", "d">>

\* C19 witness: the scenario was planned and its search has returned the
\* state with the first object on the second
C19_Witness ==
    /\ Found /\ hmode = "plan"
    /\ world \in ScenarioWorlds
    /\ interps[idx] = <<<<Lit("ontop", <<world.stacks[1][1],
                                         world.stacks[2][1]>>)>>>>
    /\ current.stacks = <<<<>>, <<world.stacks[2][1], world.stacks[1][1]>>,
                          <<>>>>

\* C18: a step that makes State objects (new State, outgoingEdges) leaves
\* every object that exists, the caller's WorldState and the State the
\* edges are generated from included, with the value it had, and afterwards
\* no column array is shared between two objects.
C18_SuccessorsOwnTheirStacks ==
    [][/\ Len(objs') >= Len(objs)
       /\ \A i \in 1..Len(objs) :
            /\ objs'[i] = objs[i]
            /\ Deref(arrays', objs'[i]) = Deref(arrays, objs[i])
       /\ Owned']_vars

\* C18 witness: outgoingEdges has returned a successor whose columns
\* differ from those of the WorldState, which still has its value
C18_Witness ==
    /\ Len(objs) >= 3
    /\ Deref(arrays, objs[1]) = world
    /\ \E j \in 3..Len(objs) :
            Deref(arrays, objs[j]).stacks # world.stacks

\* C20: for a move command, every literal inside(s, d) or ontop(s, d) with
\* d not the floor that interpretCommand returns is allowed by filterDst,
\* and interpretCommand does not return a formula without a literal.
\* Stated as claimed; with a complex source or destination description the
\* code returns every pair unfiltered.
C20_MoveLiteralsPermitted ==
    (answer.done /\ cmd.command = "move" /\ ~answer.thrown) =>
        /\ Len(answer.formula) > 0
        /\ \A i \in 1..Len(answer.formula) :
            \A j \in 1..Len(answer.formula[i]) :
                LET l == answer.formula[i][j]
                IN  (l.relation \in {"inside", "ontop"}
                        /\ Arg(l, 1) # "floor") =>
                        ~filterDst(l.relation, ObjectDefs[Arg(l, 0)],
                                   ObjectDefs[Arg(l, 1)])

\* C21: for a move command, interpretCommand returns no literal whose two
\* arguments are the same object, whatever the world and whether the
\* descriptions are simple or complex.  Stated as claimed; with a complex
\* description the code does not remove the destinations equal to the source.
C21_NoSelfRelation ==
    (answer.done /\ cmd.command = "move" /\ ~answer.thrown) =>
        \A i \in 1..Len(answer.formula) :
            \A j \in 1..Len(answer.formula[i]) :
                Arg(answer.formula[i][j], 0) # Arg(answer.formula[i][j], 1)

C23_CostIsPathLength ==
    Found => result.cost = Len(result.path) - 1

\* C24: an entry of open that a cheaper path has superseded is discarded
\* when it is dequeued: no node, as Visited identifies nodes (the key
\* State.toString), has its edges iterated over twice with the same
\* recorded gRank.  Stated as claimed; the code expands every entry it
\* dequeues.
C24_StaleEntriesShadowed ==
    [][DequeueExpand =>
        \A e \in expanded :
            ~(/\ toString(e[1]) = toString(open[1])
              /\ e[2] = getGRank(table, open[1]))]_vars

\* the edge being relaxed and the node it leads to
TheEdge == Head(edges)

Target == Head(edges).to

\* how often the node occurs in the queue
InOpen(q, n) == Cardinality({i \in 1..Len(q) : q[i] = n})

C26_SkipLeavesTableAndOpen ==
    [][(/\ pc = "edges" /\ contains(table, Target)
        /\ getGRank(table, current) + TheEdge.cost
                >= getGRank(table, Target)) =>
            (table' = table /\ open' = open)]_vars

\* C26 witness: all edges of the expanded node were relaxed and one of them
\* was skipped: it leads to a visited node that is at most as far from the
\* start and did not get the expanded node as parent
C26_Witness ==
    /\ pc = "loop" /\ current # NoNode
    /\ \E i \in 1..Len(outgoingEdges(current)) :
            LET to == outgoingEdges(current)[i].to
            IN  /\ contains(table, to)
                /\ getParent(table, to) # current
                /\ getGRank(table, current) + 1 >= getGRank(table, to)

\* C27: whenever the loop dequeues, the node it dequeues (the root of the
\* heap) has the least current fRank of all nodes in the queue.  Stated as
\* claimed; Visited.update lowers the fRank of a node in place and the heap
\* is not reordered around the entries already in it.
C27_PopsMinimalF ==
    (pc = "loop" /\ open # <<>>) =>
        \A i \in 1..Len(open) :
            getFRank(table, open[1]) <= getFRank(table, open[i])

\* how often nodes with the key occur in the queue
KeyInOpen(q, k) == Cardinality({i \in 1..Len(q) : toString(q[i]) = k})

\* C28: without deadline expiry aStarSearch terminates, with the planner's
\* heuristic and with the zero heuristic: every search that enters its loop
\* returns, with a path or with the not-found result and an empty queue;
\* and a node that is in visited is enqueued again only when its recorded
\* gRank strictly decreases.
C28_Terminates ==
    /\ (pc = "loop") ~>
            (/\ pc = "return"
             /\ \/ outcome = "found" /\ result.path # <<>>
                \/ outcome = "exhausted" /\ open = <<>> /\ result = NotFound)
    /\ [][\A k \in DOMAIN table :
            (pc \in {"loop", "edges"}
                /\ KeyInOpen(open', k) > KeyInOpen(open, k))
                => table'[k].gRank < table[k].gRank]_vars

\* C28 witness: a search with the planner's heuristic came to its end with
\* an empty queue after more dequeues than the deadline of the other
\* specifications allows, and had lowered an entry of visited on the way
C28_Witness ==
    /\ pc = "return" /\ outcome = "exhausted" /\ open = <<>>
    /\ hmode = "plan"
    /\ pops > MaxPops
    /\ limit = TermPops
    /\ \E k \in DOMAIN table :
            /\ table[k].parent # NoNode
            /\ table[k].value \notin Successors(table[k].parent)

\* C29: the heuristic is admissible for goals of one literal: in every state
\* the walk reaches, and for every positive literal evaluated there, the
\* estimate is at most the length of a shortest action sequence to a state
\* that satisfies the literal, and it is 0 when the state satisfies it
C29_HeuristicAdmissible ==
    (lit # NoLit /\ lit.polarity) =>
        LET f == <<<<lit>>>>
            d == Shortest(f, node)
        IN  /\ d # -1 => heuristic(f[1], node) <= d
            /\ goal(f, node) => heuristic(f[1], node) = 0

\* the number of objects stacked above obj in its column; 0 for the floor
\* and for an object that is in no column
ObjectsAbove(obj, st) ==
    LET cols == {i \in 1..Len(st) : obj \in Range(st[i])}
    IN  IF cols = {} THEN 0
        ELSE LET c == st[CHOOSE i \in cols : TRUE]
             IN  Cardinality({j \in 1..Len(c) :
                                \E k \in 1..Len(c) : c[k] = obj /\ j > k})

\* C30: for a goal literal R(x, y) with a binary spatial relation the
\* estimate in a state is 5 times the number of objects above x plus 5
\* times the number of objects above y
C30_HeuristicSumsBothPenalties ==
    (lit # NoLit /\ lit.polarity /\ lit.relation \in Relations) =>
        heuristic(<<lit>>, node) =
            5 * ObjectsAbove(lit.args[1], node.stacks)
            + 5 * ObjectsAbove(lit.args[2], node.stacks)

\* the sum of the estimates of the literals of a conjunction, each literal
\* estimated on its own
RECURSIVE SumOfEstimates(_, _)
SumOfEstimates(lits, n) ==
    IF lits = <<>> THEN 0
    ELSE heuristic(<<Head(lits)>>, n) + SumOfEstimates(Tail(lits), n)

\* C31: the estimate recorded for every state a search with the planner's
\* heuristic visits is the sum of the estimates of all the literals of the
\* goal conjunction
C31_HeuristicSumsAllLiterals ==
    (/\ pc \in {"loop", "edges", "return"}
     /\ hmode = "plan"
     /\ idx <= Len(interps)) =>
        \A k \in DOMAIN table :
            table[k].hRank =
                SumOfEstimates(interps[idx][1], table[k].value)

\* what happened between two consecutive states of a path
StepEvents(cs, ns) ==
    {e \in {"l", "r", "p", "d"} :
        \/ e = "l" /\ ns.arm < cs.arm
        \/ e = "r" /\ ns.arm > cs.arm
        \/ e = "p" /\ Truthy(ns.holding) /\ ns.holding # cs.holding
        \/ e = "d" /\ Truthy(cs.holding) /\ ns.holding # cs.holding}

\* C32: for every path the search returns, interpret emits one token for
\* each consecutive pair of states, the token of what happened between
\* them, so the plan has path length minus one tokens, the returned cost
C32_OneTokenPerStep ==
    Found =>
        /\ \A i \in 1..(Len(result.path) - 1) :
                /\ Len(StepToken(result.path[i], result.path[i + 1])) = 1
                /\ StepEvents(result.path[i], result.path[i + 1]) =
                        {StepToken(result.path[i], result.path[i + 1])[1]}
        /\ Len(interpret(result)) = Len(result.path) - 1
        /\ Len(interpret(result)) = result.cost

\* C33: a pick up removes exactly the topmost object of the column under
\* the arm and holds it, a put down appends exactly the held object to that
\* column and holds nothing; the arm and every other column stay as they are
C33_PickPutFrame ==
    LET from == lastEdge.from
        to == lastEdge.to
        col == from.stacks[from.arm + 1]
    IN  /\ lastEdge.kind = "p" =>
                /\ col # <<>>
                /\ to.holding = Last(col)
                /\ to.stacks = [from.stacks EXCEPT ![from.arm + 1] = Front(col)]
                /\ to.arm = from.arm
        /\ lastEdge.kind = "d" =>
                /\ to.stacks = [from.stacks EXCEPT
                                    ![from.arm + 1] = Append(col, from.holding)]
                /\ to.holding = Null
                /\ to.arm = from.arm

\* C34: during one search the heuristic function is called at most once for
\* each state, when the state is discovered, and not again when the cost
\* recorded for it is lowered
C34_HeuristicOncePerState ==
    /\ [](\A k \in DOMAIN hcalls : hcalls[k] <= 1)
    /\ [][(/\ pc = "edges"
           /\ DOMAIN table' = DOMAIN table
           /\ table' # table) => hcalls' = hcalls]_vars

\* a search in which the cost of a discovered state has been lowered: its
\* entry was estimated once and no longer has the parent it was found from
C34_Witness ==
    /\ pc = "loop" /\ hmode = "plan"
    /\ \E k \in DOMAIN table :
        /\ hcalls[k] = 1
        /\ table[k].parent # NoNode
        /\ table[k].value \notin Successors(table[k].parent)

C37_ParentsStrictlyCheaper ==
    pc \in {"loop", "edges", "return"} =>
        /\ contains(table, start)
        /\ getGRank(table, start) = 0
        /\ getParent(table, start) = NoNode
        /\ \A k \in DOMAIN table \ {toString(start)} :
                /\ table[k].parent # NoNode
                /\ contains(table, table[k].parent)
                /\ getGRank(table, table[k].parent) < table[k].gRank
        /\ outcome = "found" =>
                /\ result.path # <<>>
                /\ result.path[1] = start

\* C37 witness: the node being expanded has just become the parent of an
\* entry that was recorded before on a more expensive path (the entry's
\* node is not one of its successors), one step above its own gRank
C37_Witness ==
    /\ pc = "edges"
    /\ \E k \in DOMAIN table \ {toString(start)} :
            /\ table[k].parent = current
            /\ table[k].value \notin Successors(current)
            /\ table[k].gRank = getGRank(table, current) + 1

\* C38: at every point of a search every entry of visited has
\* fRank = gRank + hRank, also after Visited.update has lowered its cost
C38_FRankIsSum ==
    \A k \in DOMAIN table :
        table[k].fRank = table[k].gRank + table[k].hRank

\* C38 witness: in a search with the planner's heuristic, in which some
\* entry has an estimate above 0, an entry was lowered by Visited.update:
\* it has the parent of a cheaper path, from which no edge leads to its node
C38_Witness ==
    /\ hmode = "plan"
    /\ pc = "edges"
    /\ \E k \in DOMAIN table : table[k].hRank > 0
    /\ \E k \in DOMAIN table :
            /\ table[k].gRank > 1
            /\ table[k].parent # NoNode
            /\ table[k].value \notin Successors(table[k].parent)

====
